---- MODULE Spec2Model ----
(***************************************************************************)
(* A model of diffusion.py: the bracketed trajectory encoder (append_traj, *)
(* extract_sides), the canonical walk of a tree (DiffusionProcess), the    *)
(* expansion of the shared group graph (DiffusionGraph), the walk sampler  *)
(* (sample_walk) and the best-first rule search (extract_rule).            *)
(*                                                                         *)
(* Python strings are sequences of one-character strings, so that split,   *)
(* find, slicing and the substring test `a in b` are modelled by what they *)
(* do on the characters.                                                   *)
(***************************************************************************)
EXTENDS Integers, Sequences, FiniteSets, TLC

VARIABLES
    \* ---- trajectory encoder (append_traj called on one list) ----
    traj,       \* the list passed to append_traj, mutated in place
    pre,        \* the list as it was before the last call
    arg,        \* the `after` of the last call (-1: no call yet)
    ret,        \* what the last call returned: "none" | "empty" | "traj"
    hist,       \* the indices whose append was accepted, start included
    checks,     \* the two results computed by run_checks (<<>>: not run)
    \* ---- one DiffusionProcess ----
    dag,        \* the tree: children lists, side_chain flags, labels
    lookup,     \* the labels the shared lookup has a position for
    proc,       \* the process object, or how its construction ended
    \* ---- one DiffusionGraph ----
    dgraph,     \* the trees, the shared graph and the object built on them
    \* ---- one sample_walk call ----
    walk,       \* its arguments and locals; its list is traj
    \* ---- one extract_rule call ----
    rule        \* its arguments, its queue and the trajectories it returns

trajVars == <<traj, pre, arg, ret, hist, checks>>
procVars == <<dag, lookup, proc>>

vars == <<trajVars, procVars, dgraph, walk, rule>>

NoGraph == [status |-> "none"]
NoWalk == [pc |-> "none"]
NoRule == [pc |-> "none"]

----------------------------------------------------------------------------
(* Python string operations on sequences of characters.                    *)

Digits == <<"0", "1", "2", "3", "4", "5", "6", "7", "8", "9">>

\* str(n) for an int n >= 0
RECURSIVE StrInt(_)
StrInt(n) ==
    IF n < 10 THEN <<Digits[n + 1]>>
    ELSE StrInt(n \div 10) \o <<Digits[(n % 10) + 1]>>

DigitVal(c) == (CHOOSE i \in 1..10 : Digits[i] = c) - 1

\* int(s) for a string of decimal digits
RECURSIVE IntStr(_)
IntStr(s) ==
    IF Len(s) = 0 THEN 0
    ELSE 10 * IntStr(SubSeq(s, 1, Len(s) - 1)) + DigitVal(s[Len(s)])

\* s.find(sep), 1-based; 0 when sep does not occur
Find(s, sep) ==
    LET P == {p \in 1..(Len(s) - Len(sep) + 1) :
                 SubSeq(s, p, p + Len(sep) - 1) = sep}
    IN  IF P = {} THEN 0 ELSE CHOOSE p \in P : \A q \in P : p <= q

\* `sub in s` for two strings: the substring test
IsSubstr(sub, s) == Find(s, sub) # 0

\* s.split(sep)
RECURSIVE Split(_, _)
Split(s, sep) ==
    LET p == Find(s, sep)
    IN  IF p = 0 THEN <<s>>
        ELSE <<SubSeq(s, 1, p - 1)>>
                 \o Split(SubSeq(s, p + Len(sep), Len(s)), sep)

\* sep.join(parts)
RECURSIVE Join(_, _)
Join(parts, sep) ==
    IF Len(parts) = 0 THEN <<>>
    ELSE IF Len(parts) = 1 THEN parts[1]
    ELSE parts[1] \o sep \o Join(Tail(parts), sep)

Last(s) == s[Len(s)]
ButLast(s) == SubSeq(s, 1, Len(s) - 1)

LB == <<"[">>
RB == <<"]">>
Comma == <<",">>
Arrow == <<"-", ">">>

----------------------------------------------------------------------------
(* The trajectory encoder.                                                 *)

\* extract_sides(x): the head of a bracketed token and the last step of
\* each of its excursions
extract_sides(x) ==
    LET inner == ButLast(Split(x, LB)[2])
        sides == Split(inner, Comma)
    IN  <<Split(x, LB)[1]>>
            \o [k \in 1..Len(sides) |-> Last(Split(sides[k], Arrow))]

\* the list `occur` of append_traj before it is turned into flags
RECURSIVE Occur(_)
Occur(tr) ==
    IF Len(tr) = 0 THEN <<>>
    ELSE (IF IsSubstr(LB, tr[1]) THEN extract_sides(tr[1]) ELSE <<tr[1]>>)
             \o Occur(Tail(tr))

\* occur.sum(): the number of entries of which str(after) is a substring
OccurSum(occ, after) ==
    Cardinality({k \in 1..Len(occ) : IsSubstr(StrInt(after), occ[k])})

Rejected(tr) == [ret |-> "empty", traj |-> tr]
Accepted(tr) == [ret |-> "traj", traj |-> tr]

\* a linearization that forgets the head of the token it folds
LinearizeNoHead(tok) ==
    LET p == Find(tok, LB)
        sides == Split(SubSeq(tok, p + 1, Len(tok) - 1), Comma)
    IN  [n |-> Len(sides), side |-> Join(sides, <<>>)]

\* the last token written as one excursion: ->head, then its only group
Linearize(tok) ==
    LET p == Find(tok, LB)
        sides == Split(SubSeq(tok, p + 1, Len(tok) - 1), Comma)
    IN  [n |-> Len(sides),
         side |-> Join(<<Arrow \o SubSeq(tok, 1, p - 1)>> \o sides, <<>>)]

\* an encoder that accepts every index and merges nothing
append_traj_NoReject(tr, after) ==
    IF OccurSum(Occur(tr), after) # 0 THEN Accepted(tr)
    ELSE Accepted(tr \o <<StrInt(after)>>)

\* an encoder that appends every index as a new token
append_traj_AlwaysAppend(tr, after) == Accepted(tr \o <<StrInt(after)>>)

\* an encoder that pops the last token before it rejects
append_traj_PopOnReject(tr, after) ==
    IF OccurSum(Occur(tr), after) # 0 THEN Rejected(ButLast(tr))
    ELSE Accepted(tr \o <<StrInt(after)>>)

\* append_traj(traj, after): what it returns and the list it leaves behind
append_traj(tr, after) ==
    LET occ == Occur(tr)
        n == Len(tr)
    IN  IF OccurSum(occ, after) # 0
        THEN IF Len(occ) = 1 \/ OccurSum(occ, after) # 1
             THEN Rejected(tr)
             ELSE IF n < 2 \/ StrInt(after) # Split(tr[n - 1], LB)[1]
             THEN Rejected(tr)
             ELSE LET a == tr[n - 1]
                      b == tr[n]
                      keep == SubSeq(tr, 1, n - 2)
                  IN  IF IsSubstr(LB, a)
                      THEN IF IsSubstr(LB, b)
                           THEN IF Linearize(b).n > 1
                                THEN Rejected(tr)
                                ELSE Accepted(keep \o
                                    <<ButLast(a) \o Comma
                                        \o Linearize(b).side \o RB>>)
                           ELSE Accepted(keep \o
                                    <<ButLast(a) \o Comma \o Arrow \o b \o RB>>)
                      ELSE IF IsSubstr(LB, b)
                           THEN IF Linearize(b).n > 1
                                THEN Rejected(tr)
                                ELSE Accepted(keep \o
                                    <<a \o LB \o Linearize(b).side \o RB>>)
                           ELSE Accepted(keep \o
                                    <<a \o LB \o Arrow \o b \o RB>>)
        ELSE Accepted(tr \o <<StrInt(after)>>)

----------------------------------------------------------------------------
(* The encoder driven as its callers drive it: a one-token list, then one  *)
(* append_traj call after another on the same list.                        *)

Indices == {1, 2, 3, 12}
MaxVisits == 8

\* the literal lists of run_checks
Check1Traj == << <<"3", "9", "6">>,
                 <<"5", "0", "8", "[", "-", ">", "3", "9", "7", "]">> >>
Check2Traj == << <<"9", "0">>,
                 <<"5", "0", "[", "-", ">", "8", "]">>,
                 <<"4", "[", "-", ">", "2", "5", "]">> >>

TrajIdle ==
    /\ traj = <<>>
    /\ pre = <<>>
    /\ arg = -1
    /\ ret = "none"
    /\ hist = <<>>
    /\ checks = <<>>

InitTraj ==
    /\ \E s \in Indices :
          /\ traj = <<StrInt(s)>>
          /\ hist = <<s>>
    /\ pre = <<>>
    /\ arg = -1
    /\ ret = "none"
    /\ checks = <<>>
    /\ dag = <<>>
    /\ lookup = {}
    /\ proc = [status |-> "new"]
    /\ dgraph = NoGraph
    /\ walk = NoWalk
    /\ rule = NoRule

\* one call append_traj(traj, after)
AppendTraj ==
    /\ Len(hist) < MaxVisits
    /\ \E after \in Indices :
          LET r == append_traj(traj, after)
          IN  /\ pre' = traj
              /\ arg' = after
              /\ ret' = r.ret
              /\ traj' = r.traj
              /\ hist' = IF r.ret = "traj" THEN Append(hist, after) ELSE hist
    /\ UNCHANGED <<checks, procVars, dgraph, walk, rule>>

\* run_checks(): the two calls whose results it asserts
run_checks ==
    /\ checks = <<>>
    /\ checks' = <<append_traj(Check1Traj, 396), append_traj(Check2Traj, 50)>>
    /\ UNCHANGED <<traj, pre, arg, ret, hist, procVars, dgraph, walk, rule>>

NextTraj == AppendTraj \/ run_checks

SpecTraj == InitTraj /\ [][NextTraj]_vars

----------------------------------------------------------------------------
(* Reading a token as a head and its excursion groups, each group the list *)
(* of indices stepped through; used to state the encoder's properties.     *)

Reverse(s) == [k \in 1..Len(s) |-> s[Len(s) + 1 - k]]

RECURSIVE Flatten(_)
Flatten(ss) == IF Len(ss) = 0 THEN <<>> ELSE ss[1] \o Flatten(Tail(ss))

TokHead(tok) == IntStr(Split(tok, LB)[1])

GroupPath(g) ==
    LET parts == Tail(Split(g, Arrow))
    IN  [k \in 1..Len(parts) |-> IntStr(parts[k])]

TokGroups(tok) ==
    LET p == Find(tok, LB)
    IN  IF p = 0 THEN <<>>
        ELSE LET gs == Split(SubSeq(tok, p + 1, Len(tok) - 1), Comma)
             IN  [k \in 1..Len(gs) |-> GroupPath(gs[k])]

RenderGroup(path) ==
    Flatten([k \in 1..Len(path) |-> Arrow \o StrInt(path[k])])

RenderTok(head, groups) ==
    IF Len(groups) = 0 THEN StrInt(head)
    ELSE StrInt(head) \o LB
            \o Join([k \in 1..Len(groups) |-> RenderGroup(groups[k])], Comma)
            \o RB

\* the decoded history as indices: every head, every excursion's last step
TokDecoded(tok) ==
    <<TokHead(tok)>>
        \o [k \in 1..Len(TokGroups(tok)) |-> Last(TokGroups(tok)[k])]

DecodedIdx(tr) == Flatten([k \in 1..Len(tr) |-> TokDecoded(tr[k])])

CountIdx(i, seq) == Cardinality({k \in 1..Len(seq) : seq[k] = i})

\* the walk a token stands for: the head, then every excursion down its
\* path and back up to the head
TokWalk(tok) ==
    <<TokHead(tok)>>
        \o Flatten([k \in 1..Len(TokGroups(tok)) |->
                      TokGroups(tok)[k]
                          \o Tail(Reverse(TokGroups(tok)[k]))
                          \o <<TokHead(tok)>>])

FullDecode(tr) == Flatten([k \in 1..Len(tr) |-> TokWalk(tr[k])])

\* the last token of tr merged into the one before it as one more group
MergedLast(tr) ==
    LET n == Len(tr)
        a == tr[n - 1]
        b == tr[n]
        g == <<TokHead(b)>> \o Flatten(TokGroups(b))
    IN  SubSeq(tr, 1, n - 2)
            \o <<RenderTok(TokHead(a), Append(TokGroups(a), g))>>

\* next_index closes the side excursion held by the last token
ClosesExcursion(tr, i) ==
    /\ Len(tr) >= 2
    /\ TokHead(tr[Len(tr) - 1]) = i
    /\ CountIdx(i, DecodedIdx(tr)) = 1
    /\ Len(TokGroups(tr[Len(tr)])) <= 1

\* C1: when next_index is the bare head of the second-to-last token and
\* occurs exactly once in the decoded history, the last token (bare, or
\* with one group) is removed and added to the second-to-last token as one
\* new excursion group; run_checks' two examples give the stated lists.
C1_MergeOnClose ==
    /\ (ret # "none" /\ ClosesExcursion(pre, arg))
          => (ret = "traj" /\ traj = MergedLast(pre))
    /\ checks # <<>> =>
          /\ checks[1] = Accepted(<< <<"3", "9", "6", "[", "-", ">", "5", "0",
                                      "8", "-", ">", "3", "9", "7", "]">> >>)
          /\ checks[2] = Accepted(<< <<"9", "0">>,
                                     <<"5", "0", "[", "-", ">", "8", ",",
                                       "-", ">", "4", "-", ">", "2", "5",
                                       "]">> >>)

\* C2: for a next_index that occurs in the decoded history the merge is
\* performed exactly when it closes an excursion; every other such call
\* returns an empty result.
C2_MergeIffLegal ==
    (ret # "none" /\ CountIdx(arg, DecodedIdx(pre)) > 0)
        => IF ClosesExcursion(pre, arg)
           THEN ret = "traj" /\ traj = MergedLast(pre)
           ELSE ret = "empty"

\* C3: a next_index that does not occur in the decoded history is appended
\* as a new bare last token and is never rejected.
C3_AppendFresh ==
    (ret # "none" /\ CountIdx(arg, DecodedIdx(pre)) = 0)
        => (ret = "traj" /\ traj = Append(pre, StrInt(arg)))

\* C4 as stated: decoding the trajectory to the flat list of heads and
\* excursion ends gives back the visitation order.
C4_DecodedIsVisitOrder == DecodedIdx(traj) = hist

\* C4 amended: expanding every excursion down its path and back up to its
\* head gives back the visitation order of the accepted appends.
C4_FullDecodeIsVisitOrder == FullDecode(traj) = hist

C4_Witness ==
    /\ Len(hist) >= 7
    /\ Len(traj) = 1
    /\ Len(TokGroups(traj[1])) = 2
    /\ Len(TokGroups(traj[1])[1]) = 2

----------------------------------------------------------------------------
(* Trees.  A node is named by its id; the root is node 0.  T.ch[x] is the  *)
(* children list of x in stored order, T.sc[x] its side_chain flag and     *)
(* T.val[x] its label.  The last node of a chain may hold the root as its  *)
(* only child (the leaf connected back to the root); every walk below      *)
(* tests `c[0].id` before it descends, as the code does.                   *)

RECURSIVE Fact(_)
Fact(n) == IF n <= 0 THEN 1 ELSE n * Fact(n - 1)

RECURSIVE SeqProd(_)
SeqProd(s) == IF Len(s) = 0 THEN 1 ELSE s[1] * SeqProd(Tail(s))

RECURSIVE SeqSum(_)
SeqSum(s) == IF Len(s) = 0 THEN 0 ELSE s[1] + SeqSum(Tail(s))

Range(s) == {s[k] : k \in 1..Len(s)}

\* [x for x in s if x in keep]
FilterSeq(s, keep) ==
    LET F[k \in 0..Len(s)] ==
            IF k = 0 THEN <<>>
            ELSE IF s[k] \in keep THEN Append(F[k - 1], s[k]) ELSE F[k - 1]
    IN  F[Len(s)]

\* the members of a set of ids in ascending order
RECURSIVE SortedSeq(_)
SortedSeq(S) ==
    IF S = {} THEN <<>>
    ELSE LET m == CHOOSE x \in S : \A y \in S : x <= y
         IN  <<m>> \o SortedSeq(S \ {m})

RemoveAt(s, k) == SubSeq(s, 1, k - 1) \o SubSeq(s, k + 1, Len(s))

\* list(permutations(s))[idx]: itertools yields the permutations in
\* lexicographic order of the positions of s
RECURSIVE NthPerm(_, _)
NthPerm(s, idx) ==
    IF Len(s) = 0 THEN <<>>
    ELSE LET f == Fact(Len(s) - 1)
             k == (idx \div f) + 1
         IN  <<s[k]>> \o NthPerm(RemoveAt(s, k), idx % f)

\* side_childs(a)
side_childs(T, a) == FilterSeq(T.ch[a], {c \in Range(T.ch[a]) : T.sc[c]})

\* sorted(node.children, key=lambda x: (not x[0].side_chain, x[0].id))
SortedChildren(T, node) ==
    SortedSeq({c \in Range(T.ch[node]) : T.sc[c]})
        \o SortedSeq({c \in Range(T.ch[node]) : ~T.sc[c]})

Ok(v) == [ok |-> TRUE, v |-> v, err |-> ""]
Err(e) == [ok |-> FALSE, v |-> <<>>, err |-> e]

\* the children as dfs_walk visits them: the sorted list, its side-chain
\* prefix replaced by perm_map[node.id] when a perm_map is given and the
\* node is not a side chain (KeyError when the map has no such key)
WalkChildren(T, node, pm) ==
    LET childs == SortedChildren(T, node)
        ind == Cardinality({c \in Range(T.ch[node]) : T.sc[c]})
    IN  IF DOMAIN pm = {} \/ T.sc[node] THEN Ok(childs)
        ELSE IF node \notin DOMAIN pm THEN Err("KeyError")
        ELSE Ok(pm[node] \o SubSeq(childs, ind + 1, Len(childs)))

\* dfs_walk(node, res, perm_map): res after the call.  A failure below is
\* caught by the caller's `except: breakpoint()`.
RECURSIVE dfs_walk(_, _, _, _), DfsChildren(_, _, _, _, _)
DfsChildrenNoReturn(T, childs, k, res, pm) ==
    IF k > Len(childs) THEN Ok(res)
    ELSE IF childs[k] = 0 THEN DfsChildren(T, childs, k + 1, res, pm)
    ELSE LET sub == dfs_walk(T, childs[k], res, pm)
         IN  IF ~sub.ok THEN Err("breakpoint")
             ELSE DfsChildren(T, childs, k + 1, sub.v, pm)

dfs_walk(T, node, res, pm) ==
    LET w == WalkChildren(T, node, pm)
    IN  IF ~w.ok THEN Err(w.err)
        ELSE DfsChildren(T, w.v, 1, Append(res, node), pm)

DfsChildren(T, childs, k, res, pm) ==
    IF k > Len(childs) THEN Ok(res)
    ELSE LET c == childs[k]
             ind == Len(res)
         IN  IF c = 0 THEN DfsChildren(T, childs, k + 1, res, pm)
             ELSE LET sub == dfs_walk(T, c, res, pm)
                  IN  IF ~sub.ok THEN Err("breakpoint")
                      ELSE LET r == sub.v
                               back == [i \in 1..(Len(r) - ind) |->
                                           r[Len(r) - i]]
                           IN  DfsChildren(T, childs, k + 1,
                                   IF T.sc[c] THEN r \o back ELSE r, pm)

NoPermMap == <<>>

HasBackEdge(T) == \E x \in DOMAIN T.ch : x # 0 /\ 0 \in Range(T.ch[x])

\* a choice of the first stored child, whatever its id
FirstIndex(ch) == 1

\* the position in cur.children of the child with the lowest id (the first
\* one, the comparison being strict)
LowestIndex(ch) ==
    CHOOSE j \in 1..Len(ch) : \A i \in 1..Len(ch) : ch[j] <= ch[i]

\* impose_order(cur, add_main) on a tree without a way back to the root:
\* the side_chain flags it leaves
RECURSIVE impose_order(_, _, _, _), ImposeRest(_, _, _, _, _)
impose_order(ch, sc, cur, add_main) ==
    LET flagged == [x \in DOMAIN sc |->
                       IF x \in Range(ch[cur]) THEN TRUE ELSE sc[x]]
    IN  IF add_main /\ Len(ch[cur]) > 0
        THEN LET low == LowestIndex(ch[cur])
                 main == impose_order(ch,
                            [flagged EXCEPT ![ch[cur][low]] = FALSE],
                            ch[cur][low], TRUE)
             IN  ImposeRest(ch, main, cur, 1, low)
        ELSE ImposeRest(ch, flagged, cur, 1, 0)

ImposeRest(ch, sc, cur, j, low) ==
    IF j > Len(ch[cur]) THEN sc
    ELSE IF j = low THEN ImposeRest(ch, sc, cur, j + 1, low)
    ELSE ImposeRest(ch, impose_order(ch, sc, ch[cur][j], FALSE),
                    cur, j + 1, low)

NumMainChilds(T, x) == Cardinality({k \in 1..Len(T.ch[x]) : ~T.sc[T.ch[x][k]]})

\* the first child of x in stored order that is not a side chain
FirstMainChild(T, x) ==
    LET ks == {k \in 1..Len(T.ch[x]) : ~T.sc[T.ch[x][k]]}
    IN  T.ch[x][CHOOSE k \in ks : \A q \in ks : k <= q]

\* a while loop that stops at a node without a main-chain child and leaves
\* the chain open
RECURSIVE ChainWalkOpen(_, _)
ChainWalkOpen(T, chain) ==
    IF NumMainChilds(T, Last(chain)) > 1 THEN Err("AssertionError")
    ELSE IF NumMainChilds(T, Last(chain)) = 1 /\ Len(chain) < Cardinality(DOMAIN T.ch)
         THEN ChainWalkOpen(T, Append(chain, FirstMainChild(T, Last(chain))))
         ELSE Ok(chain)

\* the while loop of compute_main_chain
RECURSIVE ChainWalk(_, _)
ChainWalk(T, chain) ==
    IF ~(Len(chain) = 1 \/ Last(chain) # 0) THEN Ok(chain)
    ELSE IF NumMainChilds(T, Last(chain)) > 1 THEN Err("AssertionError")
    ELSE IF NumMainChilds(T, Last(chain)) = 1
         THEN ChainWalk(T, Append(chain, FirstMainChild(T, Last(chain))))
         ELSE ChainWalk(T, Append(chain, 0))

\* a test that never asks for impose_order
NeverImpose(T, order) == FALSE

\* `need_impose`: some node of the walk has more than one child that is
\* not a side chain
NeedImpose(T, order) == \E x \in Range(order) : NumMainChilds(T, x) > 1

\* the chain the while loop builds on the tree as impose_order left it
Chain(T) == [T |-> T, chain |-> ChainWalk(T, <<0>>)]

\* `if need_impose: impose_order(dag)`, then the while loop
MainChain(T, need_impose) ==
    IF need_impose /\ HasBackEdge(T)
    THEN [T |-> T, chain |-> Err("RecursionError")]
    ELSE IF need_impose
    THEN Chain([T EXCEPT !.sc = impose_order(T.ch, T.sc, 0, TRUE)])
    ELSE Chain(T)

\* compute_main_chain(dag): the flags it leaves and the chain it returns.
\* impose_order descends into every child, the root held by a leaf
\* included, so with a way back to the root it never returns.
compute_main_chain(T) ==
    MainChain(T, NeedImpose(T, dfs_walk(T, 0, <<>>, NoPermMap).v))

\* a decoding that reads the digits from the chain's head to its tail
RECURSIVE PermMapHeadFirst(_, _, _, _, _)
PermMapHeadFirst(T, main_chain, child_nums, i, seed) ==
    IF i = 0 THEN [pm |-> <<>>, rest |-> seed]
    ELSE LET j == Len(child_nums) - i + 1
             f == Fact(child_nums[j])
             perm == NthPerm(side_childs(T, main_chain[j]), seed % f)
             more == PermMapHeadFirst(T, main_chain, child_nums, i - 1,
                                      seed \div f)
         IN  [pm |-> (main_chain[j] :> perm) @@ more.pm, rest |-> more.rest]

\* the perm_map of compute_dfs: the seed's mixed-radix digits, from the
\* chain's tail to its head, each choosing a permutation of the node's
\* side-chain children
RECURSIVE PermMap(_, _, _, _, _)
PermMap(T, main_chain, child_nums, i, seed) ==
    IF i = 0 THEN [pm |-> <<>>, rest |-> seed]
    ELSE LET f == Fact(child_nums[i])
             perm == NthPerm(side_childs(T, main_chain[i]), seed % f)
             more == PermMap(T, main_chain, child_nums, i - 1, seed \div f)
         IN  [pm |-> (main_chain[i] :> perm) @@ more.pm, rest |-> more.rest]

\* compute_dfs(dag)
compute_dfs(T, main_chain, child_nums, seed) ==
    LET m == PermMap(T, main_chain, child_nums, Len(child_nums), seed)
    IN  IF m.rest # 0 THEN Err("AssertionError")
        ELSE dfs_walk(T, 0, <<>>, m.pm)

\* the first loop of augment_walk_order: the positions (0-based) in res of
\* the main chain's nodes; main_chain[i] is read before it is compared
RECURSIVE ChainIndices(_, _, _, _, _)
ChainIndices(res, main_chain, j, i, acc) ==
    IF j > Len(res) THEN Ok(acc)
    ELSE IF i > Len(main_chain) THEN Err("IndexError")
    ELSE IF res[j] = main_chain[i]
         THEN ChainIndices(res, main_chain, j + 1, i + 1, Append(acc, j - 1))
         ELSE ChainIndices(res, main_chain, j + 1, i, acc)

\* res[a:b] for 0 <= a, b
Slice(res, a, b) == SubSeq(res, a + 1, IF b > Len(res) THEN Len(res) ELSE b)

RECURSIVE AugmentSteps(_, _, _, _, _, _)
AugmentSteps(res, indices, start_node, dfs_dir, step, new_res) ==
    IF step >= Len(indices) THEN new_res
    ELSE LET n == Len(indices)
             start == IF dfs_dir THEN (start_node + step) % n
                      ELSE (start_node - step - 1 + n) % n
             end == IF dfs_dir THEN (start_node + step + 1) % n
                    ELSE (start_node - step + n) % n
             seg == IF indices[end + 1] <= indices[start + 1]
                    THEN Slice(res, indices[start + 1], Len(res))
                             \o Slice(res, 0, indices[end + 1])
                    ELSE Slice(res, indices[start + 1], indices[end + 1])
         IN  AugmentSteps(res, indices, start_node, dfs_dir, step + 1,
                          new_res \o seg)

\* augment_walk_order(res, dfs_seed)
augment_walk_order(res, main_chain, total, dfs_dir, dfs_seed) ==
    LET ind == ChainIndices(res, main_chain, 1, 1, <<>>)
    IN  IF ~ind.ok THEN Err(ind.err)
        ELSE Ok(AugmentSteps(res, ind.v, dfs_seed \div total, dfs_dir, 0, <<>>))

----------------------------------------------------------------------------
(* The trees a DiffusionProcess is built on: every rooted tree of at most  *)
(* MaxNodes nodes with ids 0..n-1, every stored order of the children,     *)
(* every side_chain flagging of the non-root nodes, with or without a leaf *)
(* connected back to the root.                                             *)

MaxNodes == 4
MaxSeed == 6
MaxSteps == 4

RECURSIVE ReachesRoot(_, _, _)
ReachesRoot(par, x, fuel) ==
    IF x = 0 THEN TRUE
    ELSE IF fuel = 0 THEN FALSE
    ELSE ReachesRoot(par, par[x], fuel - 1)

Kids(par, x) == {c \in DOMAIN par : par[c] = x}

Parents(n) ==
    {par \in [1..(n - 1) -> 0..(n - 1)] :
        \A x \in 1..(n - 1) : ReachesRoot(par, x, n)}

\* the k-th way of storing the children lists of the tree par
RECURSIVE OrderRadix(_, _)
OrderRadix(par, x) ==
    IF x = 0 THEN 1
    ELSE OrderRadix(par, x - 1) * Fact(Cardinality(Kids(par, x - 1)))

StoredOrder(par, n, k) ==
    [x \in 0..(n - 1) |->
        NthPerm(SortedSeq(Kids(par, x)),
                (k \div OrderRadix(par, x)) % Fact(Cardinality(Kids(par, x))))]

Label(x) == <<"G">> \o StrInt(x)

SmallDags ==
    UNION {UNION {
        LET leaves == {x \in 1..(n - 1) : Kids(par, x) = {}}
        IN  {[ch |-> IF loop = 0 THEN StoredOrder(par, n, k)
                     ELSE [StoredOrder(par, n, k) EXCEPT ![loop] = <<0>>],
              sc |-> [x \in 0..(n - 1) |-> x \in S],
              val |-> [x \in 0..(n - 1) |-> Label(x)]] :
                k \in 0..(OrderRadix(par, n) - 1),
                S \in SUBSET (1..(n - 1)),
                loop \in {0} \cup leaves}
        : par \in Parents(n)} : n \in 1..MaxNodes}

\* two main-chain nodes with two side-chain children each, in every stored
\* order: 0 -> {1, 2, 3}, 3 -> {4, 5}, the main chain being 0, 3
BushParent == (1 :> 0) @@ (2 :> 0) @@ (3 :> 0) @@ (4 :> 3) @@ (5 :> 3)

BushDags ==
    {[ch |-> StoredOrder(BushParent, 6, k),
      sc |-> [x \in 0..5 |-> x \in {1, 2, 4, 5}],
      val |-> [x \in 0..5 |-> Label(x)]] :
        k \in 0..(OrderRadix(BushParent, 6) - 1)}

Dags == SmallDags \cup BushDags

Labels(T) == {T.val[x] : x \in DOMAIN T.val}

\* the mass 1.0, as a number every division of a step divides exactly
Unit == Fact(MaxNodes - 1) ^ MaxSteps

NoProc == [status |-> "new"]

\* reset(): t, state and frontier
ResetFields(T, lk) ==
    [t |-> 0,
     state |-> [l \in lk |-> IF l = T.val[0] THEN Unit ELSE 0],
     frontier |-> IF T.val[0] \in lk THEN (0 :> Unit) ELSE <<>>,
     has_frontier |-> T.val[0] \in lk,
     last |-> ""]

Failed(e, base) == [status |-> e] @@ base

\* self.child_nums: the number of side-chain children of every node of the
\* main chain but its last
ChildNums(T, main_chain) ==
    [i \in 1..(Len(main_chain) - 1) |-> Len(side_childs(T, main_chain[i]))]

\* self.total
Total(child_nums) ==
    SeqProd([i \in 1..Len(child_nums) |-> Fact(child_nums[i])])

\* the fields __init__ sets before it computes the walk order
BaseFields(T, lk, side_chains, split, main_chain, child_nums) ==
    [side_chains |-> side_chains, split |-> split,
     main_chain |-> main_chain, child_nums |-> child_nums,
     total |-> Total(child_nums)] @@ ResetFields(T, lk)

Abs(n) == IF n < 0 THEN -n ELSE n

\* dfs_dir, abs(dfs_seed) and dfs_seed % total
SeedFields(base, seed) ==
    [dfs_dir |-> seed >= 0, dfs_seed |-> Abs(seed) % base.total,
     seed |-> Abs(seed)] @@ base

\* `if dfs_seed == 0: assert res == new_res`, then self.dfs_order = new_res
Augmented(base, res, new_res) ==
    IF ~new_res.ok THEN Failed(new_res.err, [res |-> res] @@ base)
    ELSE IF base.seed = 0 /\ res # new_res.v
    THEN Failed("AssertionError",
                [res |-> res, new_res |-> new_res.v] @@ base)
    ELSE [status |-> "ok", res |-> res, dfs_order |-> new_res.v,
          num_nodes |-> Len(res)] @@ base

\* res = compute_dfs(dag), then new_res = augment_walk_order(res, dfs_seed)
Deterministic(base, res) ==
    IF ~res.ok THEN Failed(res.err, base)
    ELSE Augmented(base, res.v,
                   augment_walk_order(res.v, base.main_chain, base.total,
                                      base.dfs_dir, base.seed))

\* `if self.split:` dfs_walk(dag, res) gives dfs_order
SplitOrder(base, res) ==
    [status |-> "ok", dfs_order |-> res.v, num_nodes |-> Len(res.v)] @@ base

\* the two branches of __init__ on self.split
WalkOrder(T, base, seed) ==
    IF base.split
    THEN SplitOrder(base, dfs_walk(T, 0, <<>>, NoPermMap))
    ELSE Deterministic(SeedFields(base, seed),
                       compute_dfs(T, base.main_chain, base.child_nums,
                                   Abs(seed) % base.total))

\* __init__ after compute_main_chain(dag)
WithMainChain(cm, lk, side_chains, split, seed) ==
    [T |-> cm.T,
     p |-> IF ~cm.chain.ok
           THEN [status |-> cm.chain.err, side_chains |-> side_chains,
                 split |-> split, last |-> ""]
           ELSE WalkOrder(cm.T,
                          BaseFields(cm.T, lk, side_chains, split,
                                     cm.chain.v, ChildNums(cm.T, cm.chain.v)),
                          seed)]

\* DiffusionProcess.__init__(dag, lookup, side_chains, split, dfs_seed):
\* the tree it leaves and the process, or the exception that ends it
NewProcess(T, lk, side_chains, split, seed) ==
    WithMainChain(compute_main_chain(T), lk, side_chains, split, seed)

ParentOf(T, c) == CHOOSE x \in DOMAIN T.ch : x # c /\ c \in Range(T.ch[x])

\* what one frontier entry (cur, p) adds to new_frontier in split mode
Spread(T, side_chains, cur, p) ==
    IF T.sc[cur]
    THEN IF ~side_chains \/ Len(T.ch[cur]) > 0 THEN <<>>
         ELSE (ParentOf(T, cur) :> p)
    ELSE [a \in Range(T.ch[cur]) |-> p \div Len(T.ch[cur])]

\* new_frontier of step() in split mode
NewFrontier(T, side_chains, frontier) ==
    LET add == [cur \in DOMAIN frontier |->
                   Spread(T, side_chains, cur, frontier[cur])]
        keys == UNION {DOMAIN add[cur] : cur \in DOMAIN frontier}
    IN  [k \in keys |->
            SeqSum([j \in 1..Len(SortedSeq(DOMAIN frontier)) |->
                LET cur == SortedSeq(DOMAIN frontier)[j]
                IN  IF k \in DOMAIN add[cur] THEN add[cur][k] ELSE 0])]

\* split mode reaches `breakpoint()` at a side-chain node with children
HitsBreakpoint(T, side_chains, frontier) ==
    \E cur \in DOMAIN frontier :
        T.sc[cur] /\ side_chains /\ Len(T.ch[cur]) > 0

StateSum(state) ==
    LET ls == DOMAIN state
        F[S \in SUBSET ls] ==
            IF S = {} THEN 0
            ELSE LET l == CHOOSE l \in S : TRUE
                 IN  state[l] + F[S \ {l}]
    IN  F[ls]

\* step(): the process after the call; "last" tells how the call ended
StepProcess(T, lk, p) ==
    LET nf == IF p.split
              THEN IF ~p.has_frontier THEN Err("AttributeError")
                   ELSE IF HitsBreakpoint(T, p.side_chains, p.frontier)
                   THEN Err("breakpoint")
                   ELSE Ok(NewFrontier(T, p.side_chains, p.frontier))
              ELSE IF ((p.t + 1) % p.num_nodes) + 1 > Len(p.dfs_order)
                   THEN Err("IndexError")
                   ELSE Ok(p.dfs_order[((p.t + 1) % p.num_nodes) + 1] :> Unit)
    IN  IF ~nf.ok THEN [p EXCEPT !.last = nf.err]
        ELSE IF \E k \in DOMAIN nf.v : T.val[k] \notin lk
        THEN [p EXCEPT !.last = "KeyError"]
        ELSE LET new_state ==
                     [l \in lk |->
                         IF \E k \in DOMAIN nf.v : T.val[k] = l
                         THEN nf.v[CHOOSE k \in DOMAIN nf.v : T.val[k] = l]
                         ELSE 0]
             IN  IF 100 * (StateSum(new_state) - Unit) > Unit
                 THEN [p EXCEPT !.last = "breakpoint"]
                 ELSE [p EXCEPT !.state = new_state, !.frontier = nf.v,
                                !.has_frontier = TRUE, !.t = p.t + 1,
                                !.last = "ok"]

----------------------------------------------------------------------------
(* One DiffusionProcess: built once on a tree, then reset and stepped.     *)

ProcIdle ==
    /\ dag = <<>>
    /\ lookup = {}
    /\ proc = NoProc

\* the shared lookup holds every label of the tree
InitProc ==
    /\ dag \in Dags
    /\ lookup = Labels(dag)
    /\ proc = NoProc
    /\ TrajIdle
    /\ dgraph = NoGraph
    /\ walk = NoWalk
    /\ rule = NoRule

\* DiffusionProcess(dag, lookup, side_chains, split, dfs_seed)
Construct ==
    /\ proc.status = "new"
    /\ \E side_chains \in BOOLEAN, split \in BOOLEAN,
          seed \in (-MaxSeed)..MaxSeed :
          LET r == NewProcess(dag, lookup, side_chains, split, seed)
          IN  /\ dag' = r.T
              /\ proc' = r.p
    /\ UNCHANGED <<lookup, trajVars, dgraph, walk, rule>>

\* proc.reset()
Reset ==
    /\ proc.status = "ok"
    /\ proc.t > 0
    /\ proc' = [proc EXCEPT !.t = 0,
                            !.state = ResetFields(dag, lookup).state,
                            !.frontier = IF dag.val[0] \in lookup
                                         THEN ResetFields(dag, lookup).frontier
                                         ELSE proc.frontier,
                            !.last = "reset"]
    /\ UNCHANGED <<dag, lookup, trajVars, dgraph, walk, rule>>

\* proc.step()
Step ==
    /\ proc.status = "ok"
    /\ proc.t < MaxSteps
    /\ proc' = StepProcess(dag, lookup, proc)
    /\ UNCHANGED <<dag, lookup, trajVars, dgraph, walk, rule>>

NextProc == Construct \/ Reset \/ Step

SpecProc == InitProc /\ [][NextProc]_vars

----------------------------------------------------------------------------
(* compute_main_chain on its own: dag keeps the tree as it is passed, proc *)
(* holds the tree as the call leaves it (T) and what the call returns      *)
(* (chain).                                                                *)

\* DiffusionProcess.compute_main_chain(dag)
MainChainCall ==
    /\ proc.status = "new"
    /\ proc' = [status |-> "chained"] @@ compute_main_chain(dag)
    /\ UNCHANGED <<dag, lookup, trajVars, dgraph, walk, rule>>

NextChain == MainChainCall

SpecChain == InitProc /\ [][NextChain]_vars

\* C5: in deterministic mode with dfs_seed = 0 the construction completes
\* on every tree and augment_walk_order gives back compute_dfs's sequence.
C5_SeedZeroSelfCheck ==
    (proc.status # "new" /\ ~proc.split /\ proc.seed = 0)
        => (proc.status = "ok" /\ proc.dfs_order = proc.res)

\* the seed's side-child permutations, one per main-chain node
SeedPerms(T, p, s) ==
    PermMap(T, p.main_chain, p.child_nums, Len(p.child_nums), s).pm

\* the weight of digit i: the product of the radices after it
TailWeight(child_nums, i) ==
    SeqProd([j \in 1..(Len(child_nums) - i) |-> Fact(child_nums[i + j])])

\* every way of choosing one order of its side-chain children per
\* main-chain node
PermChoices(T, p) ==
    LET mc == {p.main_chain[i] : i \in 1..Len(p.child_nums)}
    IN  {f \in [mc -> UNION {{NthPerm(side_childs(T, a), k) :
                                 k \in 0..(Fact(Len(side_childs(T, a))) - 1)}
                             : a \in mc}] :
            \A a \in mc : Range(f[a]) = Range(side_childs(T, a))}

C7_MassConserved ==
    proc.status = "ok" =>
        /\ 100 * (StateSum(proc.state) - Unit) <= Unit
        /\ 100 * (Unit - StateSum(proc.state)) <= Unit

----------------------------------------------------------------------------
(* DiffusionGraph.  The shared graph is a networkx MultiDiGraph: G.nodes   *)
(* is the list of its node names in insertion order and G.adj[<<a, b>>]    *)
(* the number of parallel edges from a to b.  An edge's attributes are     *)
(* copied as they are and read by nothing below, so an edge is modelled by *)
(* its end points.  The graph is bidirected (every edge has its reverse)   *)
(* and names every label of the trees, so graph[k] and graph[dest][k]      *)
(* exist wherever modify_graph reads them.                                 *)

Colon == <<":">>

\* the nodes value_count visits, in the order it visits them
RECURSIVE Preorder(_, _)
Preorder(T, node) ==
    <<node>> \o Flatten([k \in 1..Len(T.ch[node]) |->
                            IF T.ch[node][k] = 0 THEN <<>>
                            ELSE Preorder(T, T.ch[node][k])])

\* a list without its repetitions, first occurrences kept
RECURSIVE Dedup(_)
Dedup(s) ==
    IF Len(s) = 0 THEN <<>>
    ELSE LET d == Dedup(ButLast(s))
         IN  IF Last(s) \in Range(d) THEN d ELSE Append(d, Last(s))

\* a renaming that numbers the later occurrences of a label from 2
value_count_FromTwo(T) ==
    LET order == Preorder(T, 0)
        pos(x) == CHOOSE j \in 1..Len(order) : order[j] = x
        seen(x) == Cardinality({i \in 1..(pos(x) - 1) :
                                   T.val[order[i]] = T.val[x]})
    IN  [keys |-> Dedup([j \in 1..Len(order) |-> T.val[order[j]]]),
         counts |-> [l \in {T.val[x] : x \in Range(order)} |->
                        Cardinality({j \in 1..Len(order) :
                                        T.val[order[j]] = l})],
         T |-> [T EXCEPT !.val =
                   [x \in DOMAIN T.val |->
                       IF x \in Range(order) /\ seen(x) > 0
                       THEN T.val[x] \o Colon \o StrInt(seen(x) + 1)
                       ELSE T.val[x]]]]

\* value_count(dag, {}): the counts it fills, their keys in insertion
\* order, and the tree with the later occurrences of a label renamed
value_count(T) ==
    LET order == Preorder(T, 0)
        pos(x) == CHOOSE j \in 1..Len(order) : order[j] = x
        seen(x) == Cardinality({i \in 1..(pos(x) - 1) :
                                   T.val[order[i]] = T.val[x]})
    IN  [keys |-> Dedup([j \in 1..Len(order) |-> T.val[order[j]]]),
         counts |-> [l \in {T.val[x] : x \in Range(order)} |->
                        Cardinality({j \in 1..Len(order) :
                                        T.val[order[j]] = l})],
         T |-> [T EXCEPT !.val =
                   [x \in DOMAIN T.val |->
                       IF x \in Range(order) /\ seen(x) > 0
                       THEN T.val[x] \o Colon \o StrInt(seen(x))
                       ELSE T.val[x]]]]

Mult(G, a, b) == IF <<a, b>> \in DOMAIN G.adj THEN G.adj[<<a, b>>] ELSE 0

DupName(k, i) == k \o Colon \o StrInt(i)

\* one pass of `for i in range(count)`: the node k:(i+1), and for every
\* dest of graph[k] a copy of each edge k -> dest and of each edge dest -> k
AddDuplicate(G, k, i) ==
    LET kd == DupName(k, i + 1)
        nodes2 == IF kd \in Range(G.nodes) THEN G.nodes
                  ELSE Append(G.nodes, kd)
        dests == {d \in Range(G.nodes) : Mult(G, k, d) > 0}
    IN  [nodes |-> nodes2,
         adj |-> [pr \in Range(nodes2) \X Range(nodes2) |->
                     Mult(G, pr[1], pr[2])
                     + (IF pr[1] = kd /\ pr[2] \in dests
                        THEN Mult(G, k, pr[2]) ELSE 0)
                     + (IF pr[2] = kd /\ pr[1] \in dests
                        THEN Mult(G, pr[1], k) ELSE 0)]]

RECURSIVE AddDuplicates(_, _, _, _)
AddDuplicates(G, k, i, count) ==
    IF i >= count THEN G
    ELSE AddDuplicates(AddDuplicate(G, k, i), k, i + 1, count)

\* `if k in graph[k]`: remove_edge(a, b), which takes away one edge from a
\* to b, for every pair of k and its duplicates that has an edge
RemoveWithin(G, k, count) ==
    LET k_ == {k} \cup {DupName(k, i + 1) : i \in 0..(count - 1)}
    IN  IF Mult(G, k, k) = 0 THEN G
        ELSE [G EXCEPT !.adj =
                 [pr \in DOMAIN G.adj |->
                     IF pr[1] \in k_ /\ pr[2] \in k_ /\ G.adj[pr] > 0
                     THEN G.adj[pr] - 1 ELSE G.adj[pr]]]

\* `for k, count in max_value_count.items()`
RECURSIVE ExpandLabels(_, _, _)
ExpandLabels(G, keys, counts) ==
    IF Len(keys) = 0 THEN G
    ELSE LET k == Head(keys)
         IN  ExpandLabels(
                 IF counts[k] = 1 THEN G
                 ELSE RemoveWithin(AddDuplicates(G, k, 0, counts[k]),
                                   k, counts[k]),
                 Tail(keys), counts)

MaxOf(S) == CHOOSE m \in S : \A x \in S : x <= m

\* modify_graph(dags, graph): the renamed trees, the expanded graph and
\* the index lookup it returns
modify_graph(ds, G) ==
    LET vc == [i \in 1..Len(ds) |-> value_count(ds[i])]
        keys == Dedup(Flatten([i \in 1..Len(ds) |-> vc[i].keys]))
        max_value_count ==
            [k \in Range(keys) |->
                MaxOf({IF k \in DOMAIN vc[i].counts THEN vc[i].counts[k]
                       ELSE 0 : i \in 1..Len(ds)})]
        G2 == ExpandLabels(G, keys, max_value_count)
    IN  [dags |-> [i \in 1..Len(ds) |-> vc[i].T],
         graph |-> G2,
         index_lookup |->
             [l \in Range(G2.nodes) |->
                 (CHOOSE j \in 1..Len(G2.nodes) : G2.nodes[j] = l) - 1]]

\* DiffusionGraph.__init__(dags, graph, **diffusion_args): the graph and
\* the trees as it leaves them and the object it builds; the exception of
\* a DiffusionProcess ends it
NewGraph(ds, G, side_chains, split, seed) ==
    LET m == modify_graph(ds, G)
        built == [i \in 1..Len(ds) |->
                     NewProcess(m.dags[i], DOMAIN m.index_lookup,
                                side_chains, split, seed)]
        bad == {i \in 1..Len(ds) : built[i].p.status # "ok"}
        upto == IF bad = {} THEN Len(ds)
                ELSE CHOOSE i \in bad : \A j \in bad : i <= j
    IN  [status |-> IF bad = {} THEN "ok" ELSE built[upto].p.status,
         dags |-> [i \in 1..Len(ds) |->
                      IF i <= upto THEN built[i].T ELSE m.dags[i]],
         nodes |-> m.graph.nodes,
         adj |-> m.graph.adj,
         index_lookup |-> m.index_lookup,
         processes |-> [i \in 1..(IF bad = {} THEN upto ELSE upto - 1) |->
                           built[i].p],
         t |-> 0]

----------------------------------------------------------------------------
(* One DiffusionGraph built on one or two trees whose labels repeat.       *)

MaxTreeNodes == 3
MaxForest == 3
MaxMult == 2

GroupNodes == << <<"G", "1">>, <<"G", "2">> >>
GroupLabels == Range(GroupNodes)

Size(T) == Cardinality(DOMAIN T.ch)

\* the trees of at most MaxTreeNodes nodes, labelled with the groups
GroupTrees ==
    UNION {UNION {
        {[ch |-> StoredOrder(par, n, k),
          sc |-> [x \in 0..(n - 1) |-> x \in S],
          val |-> val] :
            k \in 0..(OrderRadix(par, n) - 1),
            S \in SUBSET (1..(n - 1)),
            val \in [0..(n - 1) -> GroupLabels]}
        : par \in Parents(n)} : n \in 1..MaxTreeNodes}

Forests ==
    {<<T>> : T \in GroupTrees}
        \cup {ds \in {<<T, U>> : T \in GroupTrees, U \in GroupTrees} :
                 Size(ds[1]) + Size(ds[2]) <= MaxForest}

\* the bidirected multigraphs on the groups: every pair of groups joined
GroupGraphs ==
    {[nodes |-> GroupNodes,
      adj |-> [pr \in GroupLabels \X GroupLabels |->
                  IF pr[1] = pr[2] THEN loops[pr[1]] ELSE between]] :
        loops \in [GroupLabels -> 0..MaxMult], between \in 1..MaxMult}

InitGraph ==
    /\ \E ds \in Forests, G \in GroupGraphs :
          /\ dgraph = [status |-> "new", dags |-> ds,
                       nodes |-> G.nodes, adj |-> G.adj]
    /\ TrajIdle
    /\ ProcIdle
    /\ walk = NoWalk
    /\ rule = NoRule

\* DiffusionGraph(dags, graph, side_chains=..., split=..., dfs_seed=...)
ConstructGraph ==
    /\ dgraph.status = "new"
    /\ \E side_chains \in BOOLEAN, split \in BOOLEAN, seed \in 0..1 :
          dgraph' = NewGraph(dgraph.dags,
                             [nodes |-> dgraph.nodes, adj |-> dgraph.adj],
                             side_chains, split, seed)
    /\ UNCHANGED <<trajVars, procVars, walk, rule>>

NextGraph == ConstructGraph

SpecGraph == InitGraph /\ [][NextGraph]_vars

----------------------------------------------------------------------------
(* One DiffusionGraph after its construction, stepped and reset.  The      *)
(* graph may lack a group the trees are labelled with: modify_graph reads  *)
(* graph[k] for a label k that repeats in a tree only, so the trees built  *)
(* on here carry a missing label at most once.                             *)

\* p.reset()
ResetProcess(T, lk, p) ==
    [p EXCEPT !.t = 0,
              !.state = ResetFields(T, lk).state,
              !.frontier = IF T.val[0] \in lk
                           THEN ResetFields(T, lk).frontier
                           ELSE p.frontier,
              !.last = "reset"]

\* `for p in self.processes: try: p.step() except KeyError: continue` from
\* process i on: the processes as the loop leaves them, and the exception
\* that ends it, if any
RECURSIVE StepAll(_, _, _, _)
StepAll(ds, lk, ps, i) ==
    IF i > Len(ps) THEN [processes |-> ps, exc |-> ""]
    ELSE LET r == StepProcess(ds[i], lk, ps[i])
         IN  IF r.last \in {"ok", "KeyError"}
             THEN StepAll(ds, lk, [ps EXCEPT ![i] = r], i + 1)
             ELSE [processes |-> [ps EXCEPT ![i] = r], exc |-> r.last]

\* DiffusionGraph.step()
StepGraph(g) ==
    LET r == StepAll(g.dags, DOMAIN g.index_lookup, g.processes, 1)
    IN  [g EXCEPT !.processes = r.processes,
                  !.t = IF r.exc = "" THEN g.t + 1 ELSE g.t,
                  !.op = "step",
                  !.exc = r.exc]

\* DiffusionGraph.reset()
ResetGraph(g) ==
    [g EXCEPT !.processes =
                  [i \in 1..Len(g.processes) |->
                      ResetProcess(g.dags[i], DOMAIN g.index_lookup,
                                   g.processes[i])],
              !.t = 0,
              !.op = "reset",
              !.exc = ""]

\* the graphs on the first group alone, and those on all the groups
TickGraphs ==
    GroupGraphs
        \cup {[nodes |-> <<GroupNodes[1]>>,
               adj |-> (<<GroupNodes[1], GroupNodes[1]>> :> loops)] :
                  loops \in 0..MaxMult}

\* the forests of two trees
TickForests == {ds \in Forests : Len(ds) > 1}

InitTick ==
    /\ \E ds \in TickForests, G \in TickGraphs, side_chains \in BOOLEAN,
          split \in BOOLEAN, seed \in 0..1 :
          /\ \A i \in 1..Len(ds) : \A k \in DOMAIN value_count(ds[i]).counts :
                 value_count(ds[i]).counts[k] > 1 => k \in Range(G.nodes)
          /\ NewGraph(ds, G, side_chains, split, seed).status = "ok"
          /\ dgraph = [op |-> "", exc |-> ""]
                          @@ NewGraph(ds, G, side_chains, split, seed)
    /\ TrajIdle
    /\ ProcIdle
    /\ walk = NoWalk
    /\ rule = NoRule

GraphStep ==
    /\ dgraph.status = "ok"
    /\ dgraph.t < MaxSteps
    /\ \A i \in 1..Len(dgraph.processes) : dgraph.processes[i].t < MaxSteps
    /\ dgraph' = StepGraph(dgraph)
    /\ UNCHANGED <<trajVars, procVars, walk, rule>>

GraphReset ==
    /\ dgraph.status = "ok"
    /\ dgraph.t > 0
    /\ dgraph' = ResetGraph(dgraph)
    /\ UNCHANGED <<trajVars, procVars, walk, rule>>

NextTick == GraphStep \/ GraphReset

SpecTick == InitTick /\ [][NextTick]_vars

\* the group a node name belongs to, and the duplicates of a group
BaseLabel(l) == Split(l, Colon)[1]

Dups(L) ==
    {l \in Range(dgraph.nodes) : IsSubstr(Colon, l) /\ BaseLabel(l) = L}

\* the largest number of times one tree uses the group L
MaxCount(L) ==
    MaxOf({Cardinality({x \in DOMAIN dgraph.dags[i].val :
                           BaseLabel(dgraph.dags[i].val[x]) = L}) :
              i \in 1..Len(dgraph.dags)})

Built == dgraph.status \notin {"none", "new"}

\* C8: the construction adds, for a label whose largest per-tree count c
\* exceeds 1, exactly the c-1 nodes label:1 .. label:(c-1), and no node for
\* a label with c = 1.
C8_DuplicateCount ==
    Built =>
        \A L \in GroupLabels :
            Dups(L) = IF MaxCount(L) > 1
                      THEN {DupName(L, i) : i \in 1..(MaxCount(L) - 1)}
                      ELSE {}

\* C9: every duplicate of a label has the edges of the original, in both
\* directions, to every node outside the label's duplicate set, and no
\* edge, self-loops included, joins two members of that set.
C9_MirroredNoInternalEdges ==
    Built =>
        \A L \in GroupLabels :
            LET S == {L} \cup Dups(L)
            IN  Dups(L) # {} =>
                  /\ \A d \in Dups(L), x \in Range(dgraph.nodes) \ S :
                        /\ dgraph.adj[<<d, x>>] = dgraph.adj[<<L, x>>]
                        /\ dgraph.adj[<<x, d>>] = dgraph.adj[<<x, L>>]
                  /\ \A a \in S, b \in S : dgraph.adj[<<a, b>>] = 0

----------------------------------------------------------------------------
(* sample_walk.  The transition model is external: model(state, context,   *)
(* t) may return any update, so the entries of state + update that are     *)
(* positive form an arbitrary set P of indices; context and t are read by  *)
(* the model alone.  A distribution is modelled by its support, the set of *)
(* indices with non-zero probability.  min_thresh is 0.0: the loop breaks  *)
(* on the threshold exactly when no index is left (the division by the     *)
(* zero sum gives NaN, which breaks it as well).                           *)

\* extract(x), of utils: the index at the head of a token
extract(x) == IntStr(Split(x, LB)[1])

\* check_colon_order(all_nodes, traj, after)
check_colon_order(nodes, tr, aft) ==
    LET name == nodes[aft]
        ind == IF IsSubstr(Colon, name)
               THEN IntStr(Last(Split(name, Colon))) ELSE 0
        grp == Split(name, Colon)[1]
        heads == [k \in 1..Len(tr) |-> nodes[extract(tr[k])]]
        prev_indices ==
            FilterSeq(heads, {l \in Range(heads) : IsSubstr(grp, l)})
        later == \E k \in 1..Len(prev_indices) :
                    /\ IsSubstr(Colon, prev_indices[k])
                    /\ IntStr(Last(Split(prev_indices[k], Colon))) > ind
        gap == \E i \in 0..(ind - 1) :
                  (grp \o (IF i # 0 THEN Colon \o StrInt(i) ELSE <<>>))
                      \notin Range(prev_indices)
    IN  later \/ gap

\* state_to_probs(state + update, adj): the support of the result, P being
\* the indices where state + update is positive
state_to_probs(P, row) == {i \in P : row[i] # 0}

\* a masking loop that leaves the head of the last token its probability
SurvivingWithHead(w, tr, P) ==
    {i \in state_to_probs(P, w.adj[w.cur_node_ind]) :
        ~check_colon_order(w.all_nodes, tr, i)}

\* a masking loop without the colon-order check
SurvivingAnyOrder(w, tr, P) ==
    {i \in state_to_probs(P, w.adj[w.cur_node_ind]) :
        ~(Len(tr) > 0 /\ extract(Last(tr)) = i)}

\* the indices left with non-zero probability by the masking loop
Surviving(w, tr, P) ==
    {i \in state_to_probs(P, w.adj[w.cur_node_ind]) :
        /\ ~(Len(tr) > 0 /\ extract(Last(tr)) = i)
        /\ ~check_colon_order(w.all_nodes, tr, i)}

\* a rest of the iteration in which a rejected index ends the walk with
\* good = True whatever loop_back is
DrawnGoodOnReject(w, tr, a) ==
    LET w1 == [w EXCEPT !.after = a]
    IN  IF extract(Last(tr)) = a
        THEN [walk |-> [w1 EXCEPT !.pc = "done", !.end = "self_loop"],
              traj |-> Append(tr, StrInt(a))]
        ELSE IF w.loop_back /\ a = w.start
        THEN [walk |-> [w1 EXCEPT !.pc = "done", !.end = "loop_back",
                                  !.good = TRUE],
              traj |-> Append(tr, StrInt(a))]
        ELSE LET r == append_traj(tr, a)
             IN  IF r.ret = "empty"
                 THEN [walk |-> [w1 EXCEPT !.pc = "done", !.end = "rejected",
                                           !.good = TRUE],
                       traj |-> r.traj]
                 ELSE [walk |-> [w1 EXCEPT !.cur_node_ind =
                                               extract(Last(r.traj))],
                       traj |-> r.traj]

\* the rest of the iteration once `after` is drawn; `end` names the break
\* that ends the walk
Drawn(w, tr, a) ==
    LET w1 == [w EXCEPT !.after = a]
    IN  IF extract(Last(tr)) = a
        THEN [walk |-> [w1 EXCEPT !.pc = "done", !.end = "self_loop"],
              traj |-> Append(tr, StrInt(a))]
        ELSE IF w.loop_back /\ a = w.start
        THEN [walk |-> [w1 EXCEPT !.pc = "done", !.end = "loop_back",
                                  !.good = TRUE],
              traj |-> Append(tr, StrInt(a))]
        ELSE LET r == append_traj(tr, a)
             IN  IF r.ret = "empty"
                 THEN [walk |-> [w1 EXCEPT !.pc = "done", !.end = "rejected",
                                           !.good = ~w.loop_back],
                       traj |-> r.traj]
                 ELSE [walk |-> [w1 EXCEPT !.cur_node_ind =
                                               extract(Last(r.traj))],
                       traj |-> r.traj]

\* one iteration of `while True`
sample_walk(w, tr, P) ==
    LET S == Surviving(w, tr, P)
    IN  IF S = {}
        THEN {[walk |-> [w EXCEPT !.pc = "done", !.end = "thresh",
                                  !.good = ~w.loop_back],
               traj |-> tr]}
        ELSE {Drawn(w, tr, a) : a \in S}

----------------------------------------------------------------------------
(* One sample_walk call on a graph of WalkSize indices.  The graph is      *)
(* bidirected; its diagonal is left out, the index at the head of the last *)
(* token being masked in every iteration.  The names are those an expanded *)
(* graph has: a group, then its duplicates group:1, group:2, ...           *)

WalkSize == 4

WalkIndices == 0..(WalkSize - 1)

Groupings ==
    {grp \in [WalkIndices -> WalkIndices] :
        /\ grp[0] = 0
        /\ \A i \in 1..(WalkSize - 1) : grp[i] \in {grp[i - 1], grp[i - 1] + 1}}

NodeNames(grp) ==
    [i \in WalkIndices |->
        LET r == Cardinality({j \in 0..(i - 1) : grp[j] = grp[i]})
        IN  <<"G">> \o StrInt(grp[i])
                \o (IF r = 0 THEN <<>> ELSE Colon \o StrInt(r))]

Adjacencies ==
    {[i \in WalkIndices |-> [j \in WalkIndices |->
          IF {i, j} \in E THEN 1 ELSE 0]] :
        E \in SUBSET ({{i, j} : i, j \in WalkIndices}
                          \ {{i} : i \in WalkIndices})}

InitWalk ==
    /\ \E grp \in Groupings, a \in Adjacencies, s \in WalkIndices,
          lb \in BOOLEAN :
          /\ walk = [pc |-> "loop", all_nodes |-> NodeNames(grp), adj |-> a,
                     start |-> s, loop_back |-> lb, cur_node_ind |-> s,
                     after |-> -1, good |-> FALSE, end |-> ""]
          /\ traj = <<StrInt(s)>>
    /\ pre = <<>>
    /\ arg = -1
    /\ ret = "none"
    /\ hist = <<>>
    /\ checks = <<>>
    /\ ProcIdle
    /\ dgraph = NoGraph
    /\ rule = NoRule

\* one iteration of the loop of sample_walk
SampleStep ==
    /\ walk.pc = "loop"
    /\ \E P \in SUBSET WalkIndices :
          \E n \in sample_walk(walk, traj, P) :
              /\ walk' = n.walk
              /\ traj' = n.traj
    /\ UNCHANGED <<pre, arg, ret, hist, checks, procVars, dgraph, rule>>

NextWalk == SampleStep

SpecWalk == InitWalk /\ [][NextWalk]_vars

\* the loop keeps running while it has not reached a break
SpecWalkFair == SpecWalk /\ WF_vars(SampleStep)

\* C10: with loop_back = True and min_thresh = 0.0 the loop of sample_walk
\* ends after finitely many iterations, whatever index is drawn among those
\* left with non-zero probability.
C10_Terminates == walk.loop_back => <>(walk.pc = "done")

C10_Witness ==
    /\ walk.pc = "done"
    /\ walk.loop_back
    /\ walk.good
    /\ Len(traj) = 3
    /\ Len(TokGroups(traj[2])) = 2

\* C11: with loop_back = True, sample_walk returns good = True only when the
\* last drawn index is the start index, the returned trajectory then ending
\* with the start index as its last token; the walk ended by the threshold,
\* by a self-loop or by a rejected index returns good = False.
C11_GoodIffBackAtStart ==
    (walk.pc = "done" /\ walk.loop_back) =>
        /\ walk.good => (walk.after = walk.start
                            /\ Last(traj) = StrInt(walk.start))
        /\ walk.good <=> (walk.end = "loop_back")
        /\ walk.end \in {"thresh", "self_loop", "rejected"} => ~walk.good

C11_Witness ==
    /\ walk.pc = "done"
    /\ walk.loop_back
    /\ walk.good
    /\ walk.after = walk.start
    /\ Len(traj) = 3
    /\ IsSubstr(LB, traj[2])

C11_WitnessRejected ==
    /\ walk.pc = "done"
    /\ walk.loop_back
    /\ walk.end = "rejected"
    /\ ~walk.good

----------------------------------------------------------------------------
(* check_colon_order on the walks of sample_walk over a graph whose group  *)
(* names contain one another, as L3 and L30 or G1 and G12 do.  all_nodes   *)
(* lists the groups first and their duplicates after them, the order in    *)
(* which modify_graph adds the nodes.                                      *)

ColonPool ==
    << <<"G", "1">>, <<"G", "1", "2">>, <<"G", "2">>,
       <<"G", "1", ":", "1">>, <<"G", "1", "2", ":", "1">>,
       <<"G", "1", ":", "2">> >>

\* the number after the colon of a label, 0 for a label without one
SuffixOf(l) == IF IsSubstr(Colon, l) THEN IntStr(Last(Split(l, Colon))) ELSE 0

\* the label k:i, bare k for i = 0
LabelOf(k, i) == k \o (IF i = 0 THEN <<>> ELSE Colon \o StrInt(i))

\* the choices of WalkSize names that hold k:(i-1) whenever they hold k:i
ColonNamings ==
    {[i \in WalkIndices |-> ColonPool[SortedSeq(S)[i + 1]]] :
        S \in {S \in SUBSET (1..Len(ColonPool)) :
                  /\ Cardinality(S) = WalkSize
                  /\ \A q \in S :
                        IsSubstr(Colon, ColonPool[q]) =>
                            \E r \in S :
                                ColonPool[r] =
                                    LabelOf(BaseLabel(ColonPool[q]),
                                            SuffixOf(ColonPool[q]) - 1)}}

\* the graph that joins every two indices
CompleteAdj ==
    [i \in WalkIndices |-> [j \in WalkIndices |-> IF i = j THEN 0 ELSE 1]]

InitColon ==
    /\ \E names \in ColonNamings, s \in WalkIndices, lb \in BOOLEAN :
          /\ walk = [pc |-> "loop", all_nodes |-> names, adj |-> CompleteAdj,
                     start |-> s, loop_back |-> lb, cur_node_ind |-> s,
                     after |-> -1, good |-> FALSE, end |-> ""]
          /\ traj = <<StrInt(s)>>
    /\ pre = <<>>
    /\ arg = -1
    /\ ret = "none"
    /\ hist = <<>>
    /\ checks = <<>>
    /\ ProcIdle
    /\ dgraph = NoGraph
    /\ rule = NoRule

SpecColon == InitColon /\ [][NextWalk]_vars

\* the labels of the indices the trajectory has visited
VisitedNames(nodes, tr) == {nodes[i] : i \in Range(FullDecode(tr))}

\* the candidate k:i lacks a visited k:j below it or has a visited k:j
\* above it
ColonForbidden(nodes, tr, a) ==
    LET k == BaseLabel(nodes[a])
        i == SuffixOf(nodes[a])
        V == VisitedNames(nodes, tr)
    IN  \/ \E j \in 0..(i - 1) : LabelOf(k, j) \notin V
        \/ \E l \in V : BaseLabel(l) = k /\ SuffixOf(l) > i

\* C12: check_colon_order forbids the candidate k:i exactly when some label
\* k, k:1, ..., k:(i-1) of its group has not been visited in the trajectory
\* or some k:j with j > i has been; visits to labels of other groups do not
\* count.
C12_ColonOrderExact ==
    walk.pc # "none" =>
        \A a \in DOMAIN walk.all_nodes :
            check_colon_order(walk.all_nodes, traj, a)
                <=> ColonForbidden(walk.all_nodes, traj, a)

\* the same with only the heads of the tokens counted as visited: what is
\* left is the effect of the other groups' labels
HeadNames(nodes, tr) == {nodes[extract(tr[k])] : k \in 1..Len(tr)}

C12_ExactOnTokenHeads ==
    walk.pc # "none" =>
        \A a \in DOMAIN walk.all_nodes :
            check_colon_order(walk.all_nodes, traj, a) <=>
                LET k == BaseLabel(walk.all_nodes[a])
                    i == SuffixOf(walk.all_nodes[a])
                    V == HeadNames(walk.all_nodes, traj)
                IN  \/ \E j \in 0..(i - 1) : LabelOf(k, j) \notin V
                    \/ \E l \in V : BaseLabel(l) = k /\ SuffixOf(l) > i

----------------------------------------------------------------------------
(* extract_rule.  An entry of the queue is a trajectory with the one-hot   *)
(* state that get_state returned for it, kept as the index `cur` the state *)
(* is set at; its context, step count and edge probabilities are read by   *)
(* the transition model and by the priority alone.  The priority of an     *)
(* entry is a sum of the model's log-probabilities, so PriorityQueue.delete *)
(* may give back any entry.  verify_walk is external: it accepts or raises *)
(* on a candidate, and V is the set of candidates it accepts.              *)

\* get_state(G, start, after, traj, loop_back): the list as the call leaves
\* it, and whether it returns None
get_state(tr, start, a, loop_back) ==
    IF extract(Last(tr)) = a
    THEN [traj |-> Append(tr, StrInt(a)), none |-> TRUE]
    ELSE IF loop_back /\ a = start
    THEN [traj |-> Append(tr, StrInt(a)), none |-> TRUE]
    ELSE LET r == append_traj(tr, a)
         IN  [traj |-> r.traj, none |-> r.ret = "empty"]

\* initialize(n); graph.index_lookup[n] is the index the label n stands at
initialize(n) == [traj |-> <<StrInt(n)>>, cur |-> n]

\* the code before the loop: the queue exists in the best-first mode
\* (depth == -1) only, the other mode reads `explore` before any assignment.
\* r.n is the set of the start indices: one for a single n, several for a
\* list
RuleEnter(r) ==
    IF r.best_first
    THEN [r EXCEPT !.pc = "loop", !.explore = {initialize(s) : s \in r.n}]
    ELSE [r EXCEPT !.pc = "UnboundLocalError"]

CandidateNoViolation(tr, start, ind, g) ==
    [ind |-> ind, traj |-> g.traj, none |-> g.none,
     violation |-> FALSE,
     done |-> StrInt(start) = Last(g.traj)]

\* what the loop `for ind in inds` does with one candidate
Candidate(tr, start, ind, g) ==
    [ind |-> ind, traj |-> g.traj, none |-> g.none,
     violation |-> g.traj = tr,
     done |-> StrInt(start) = Last(g.traj)]

\* a candidate with what verify_walk did on it: it is not called on a
\* violation, and on the others it returns or raises
Verified(c, V) ==
    [ind |-> c.ind, traj |-> c.traj, none |-> c.none,
     violation |-> c.violation, done |-> c.done,
     verify |-> IF c.violation THEN "not called"
                ELSE IF c.ind \in V THEN "returned" ELSE "raised"]

\* one iteration of `while not explore.isEmpty()` in the best-first mode on
\* the entry that delete() gives back
RuleIteration(r, item, P, V) ==
    LET start == TokHead(item.traj[1])
        support == state_to_probs(P, r.adj[item.cur])
        inds == Surviving([all_nodes |-> r.all_nodes, adj |-> r.adj,
                           cur_node_ind |-> item.cur], item.traj, P)
        cands == {Candidate(item.traj, start, ind,
                            get_state(item.traj, start, ind, TRUE)) :
                     ind \in inds}
        kept == {c \in cands : ~c.violation /\ c.ind \in V}
    IN  [r EXCEPT
            !.pc = IF \E c \in kept : c.none /\ ~c.done
                   THEN "breakpoint" ELSE "loop",
            !.explore = (r.explore \ {item})
                            \cup {[traj |-> c.traj, cur |-> c.ind] :
                                     c \in {c \in kept : ~c.none}},
            !.trajs = r.trajs \cup {c.traj : c \in {c \in kept : c.none}},
            !.popped = item.traj,
            !.support = support,
            !.inds = inds,
            !.cands = {Verified(c, V) : c \in cands}]

----------------------------------------------------------------------------
(* One call of sample_walk or of extract_rule on a graph in which an index *)
(* may be joined to itself.                                                *)

RuleSize == 3
ListLen == 2
MaxListEdges == 2

RuleIndices == 0..(RuleSize - 1)

RuleGroupings ==
    {grp \in [RuleIndices -> RuleIndices] :
        /\ grp[0] = 0
        /\ \A i \in 1..(RuleSize - 1) : grp[i] \in {grp[i - 1], grp[i - 1] + 1}}

RuleNames(grp) ==
    [i \in RuleIndices |->
        LET r == Cardinality({j \in 0..(i - 1) : grp[j] = grp[i]})
        IN  <<"G">> \o StrInt(grp[i])
                \o (IF r = 0 THEN <<>> ELSE Colon \o StrInt(r))]

\* the bidirected graphs on RuleIndices, every index joined to itself
RuleAdjacencies ==
    {[i \in RuleIndices |-> [j \in RuleIndices |->
          IF i = j \/ {i, j} \in E THEN 1 ELSE 0]] :
        E \in SUBSET {{i, j} : i, j \in RuleIndices}}

\* those of at most MaxListEdges edges between different indices
SparseAdjacencies ==
    {a \in RuleAdjacencies :
        Cardinality({e \in SUBSET RuleIndices :
                        /\ Cardinality(e) = 2
                        /\ \A i, j \in e : a[i][j] = 1}) <= MaxListEdges}

\* n: one start, or a list of ListLen starts
RuleStarts ==
    {s \in SUBSET RuleIndices : Cardinality(s) \in {1, ListLen}}

\* the graph that joins every index to every index, itself included; the
\* transition model being free, its walks are those of all of its subgraphs
LoopAdj == [i \in WalkIndices |-> [j \in WalkIndices |-> 1]]

InitSearch ==
    /\ \/ /\ \E grp \in Groupings, s \in WalkIndices, lb \in BOOLEAN :
                /\ walk = [pc |-> "loop", all_nodes |-> NodeNames(grp),
                           adj |-> LoopAdj, start |-> s, loop_back |-> lb,
                           cur_node_ind |-> s, after |-> -1,
                           good |-> FALSE, end |-> ""]
                /\ traj = <<StrInt(s)>>
          /\ rule = NoRule
       \/ /\ \E grp \in RuleGroupings, a \in RuleAdjacencies,
                s \in RuleStarts, bf \in BOOLEAN :
                /\ Cardinality(s) > 1 => a \in SparseAdjacencies
                /\ rule = [pc |-> "enter", best_first |-> bf,
                        all_nodes |-> RuleNames(grp), adj |-> a, n |-> s,
                        explore |-> {}, trajs |-> {}, popped |-> <<>>,
                        support |-> {}, inds |-> {}, cands |-> {}]
          /\ walk = NoWalk
          /\ traj = <<>>
    /\ pre = <<>>
    /\ arg = -1
    /\ ret = "none"
    /\ hist = <<>>
    /\ checks = <<>>
    /\ ProcIdle
    /\ dgraph = NoGraph

\* extract_rule(n, G, graph, model, all_nodes, depth=...) up to its loop
RuleStart ==
    /\ rule.pc = "enter"
    /\ rule' = RuleEnter(rule)
    /\ UNCHANGED <<trajVars, procVars, dgraph, walk>>

\* one iteration of the loop of extract_rule, or its end on an empty queue
RuleStep ==
    /\ rule.pc = "loop"
    /\ IF rule.explore = {}
       THEN rule' = [rule EXCEPT !.pc = "done"]
       ELSE \E item \in rule.explore, P \in SUBSET RuleIndices :
               \E V \in SUBSET state_to_probs(P, rule.adj[item.cur]) :
                   rule' = RuleIteration(rule, item, P, V)
    /\ UNCHANGED <<trajVars, procVars, dgraph, walk>>

NextSearch == SampleStep \/ RuleStart \/ RuleStep

SpecSearch == InitSearch /\ [][NextSearch]_vars

\* the trajectories extract_rule holds or has returned
RuleTrajs == {e.traj : e \in rule.explore} \cup rule.trajs

\* in the visit order of tr, every visit of a label k:i with i >= 1 has a
\* visit of k:(i-1) before it
FirstVisitsInOrder(nodes, tr) ==
    LET d == FullDecode(tr)
    IN  \A q \in 1..Len(d) :
            SuffixOf(nodes[d[q]]) >= 1 =>
                \E r \in 1..(q - 1) :
                    nodes[d[r]] = LabelOf(BaseLabel(nodes[d[q]]),
                                          SuffixOf(nodes[d[q]]) - 1)

\* C13: in every trajectory sample_walk or extract_rule builds from a start
\* label without a suffix, the first visit of k:i (i >= 1) comes after a
\* visit of k:(i-1), bare k for i = 1.
C13_SuffixesInOrder ==
    /\ (walk.pc # "none" /\ SuffixOf(walk.all_nodes[walk.start]) = 0)
          => FirstVisitsInOrder(walk.all_nodes, traj)
    /\ rule.pc # "none" =>
          \A tr \in RuleTrajs :
              SuffixOf(rule.all_nodes[TokHead(tr[1])]) = 0
                  => FirstVisitsInOrder(rule.all_nodes, tr)

C13_Witness ==
    /\ rule.pc = "loop"
    /\ \E tr \in rule.trajs :
          /\ SuffixOf(rule.all_nodes[TokHead(tr[1])]) = 0
          /\ \E q \in 1..Len(FullDecode(tr)) :
              SuffixOf(rule.all_nodes[FullDecode(tr)[q]]) >= 1

\* C14: the index sample_walk draws, and every index the best-first mode of
\* extract_rule takes as a next step, differs from the head of the last
\* token of the trajectory it extends.
C14_NoSelfLoop ==
    /\ walk.pc # "none" => walk.end # "self_loop"
    /\ rule.pc # "none" =>
          \A ind \in rule.inds : ind # extract(Last(rule.popped))

C14_Witness ==
    /\ rule.pc = "loop"
    /\ rule.inds # {}
    /\ extract(Last(rule.popped)) \in rule.support
    /\ Len(rule.popped) > 1

----------------------------------------------------------------------------
(* The claims on compute_main_chain and impose_order, under SpecChain.     *)

\* the call was asked to canonicalize the tree it was passed
Canonicalized == NeedImpose(dag, dfs_walk(dag, 0, <<>>, NoPermMap).v)

\* the path from x that takes the child with the smallest id down to a leaf
RECURSIVE LowestPath(_, _)
LowestPath(ch, x) ==
    IF Len(ch[x]) = 0 THEN <<x>>
    ELSE <<x>> \o LowestPath(ch, CHOOSE c \in Range(ch[x]) :
                                     \A e \in Range(ch[x]) : c <= e)

\* C15: after compute_main_chain on a tree, whatever its side_chain flags
\* were, every node has at most one child that is not a side chain, and the
\* assertion num_main_childs <= 1 of the chain walk has not failed.
C15_AtMostOneMainChild ==
    (proc.status = "chained" /\ ~HasBackEdge(dag)) =>
        /\ proc.chain.ok
        /\ \A x \in DOMAIN proc.T.ch : NumMainChilds(proc.T, x) <= 1

C15_Witness ==
    /\ proc.status = "chained"
    /\ ~HasBackEdge(dag)
    /\ Canonicalized
    /\ \E x \in DOMAIN dag.ch : x # 0 /\ NumMainChilds(dag, x) > 1

\* C16: after compute_main_chain on a tree with arbitrary side_chain flags,
\* a node other than the root has side_chain == false exactly when it lies
\* on the returned main chain.
C16_FlagsMatchChain ==
    (proc.status = "chained" /\ ~HasBackEdge(dag) /\ proc.chain.ok) =>
        \A x \in DOMAIN proc.T.ch \ {0} :
            ~proc.T.sc[x] <=> x \in Range(proc.chain.v)

\* C17: when some node has more than one child that is not a side chain,
\* the main chain is the path root -> smallest-id child -> ... down to a
\* leaf, and every node off that path, the nodes inside the other
\* children's subtrees included, is flagged as a side chain.
C17_LowestIdPath ==
    (proc.status = "chained" /\ ~HasBackEdge(dag) /\ Canonicalized) =>
        /\ proc.chain.ok
        /\ proc.chain.v = LowestPath(dag.ch, 0) \o <<0>>
        /\ \A x \in DOMAIN proc.T.ch \ {0} :
              proc.T.sc[x] <=> x \notin Range(LowestPath(dag.ch, 0))

C17_Witness ==
    /\ proc.status = "chained"
    /\ ~HasBackEdge(dag)
    /\ Canonicalized
    /\ \E x \in DOMAIN dag.ch, y \in DOMAIN dag.ch :
          /\ x \notin Range(LowestPath(dag.ch, 0))
          /\ y \in Range(dag.ch[x])
          /\ ~dag.sc[y]
          /\ proc.T.sc[y]
    /\ \E x \in DOMAIN dag.ch :
          Len(dag.ch[x]) > 1 /\ dag.ch[x][1] # LowestPath(dag.ch, x)[2]

\* C18: on a tree with root id 0 compute_main_chain returns, and what it
\* returns starts with the root, goes on through successive children that
\* are not side chains and ends with a node of id 0, no node of id 0 lying
\* strictly inside.
C18_ChainClosesAtRoot ==
    (proc.status = "chained" /\ ~HasBackEdge(dag)) =>
        /\ proc.chain.ok
        /\ Len(proc.chain.v) >= 2
        /\ proc.chain.v[1] = 0
        /\ Last(proc.chain.v) = 0
        /\ \A i \in 2..(Len(proc.chain.v) - 1) :
              /\ proc.chain.v[i] # 0
              /\ proc.chain.v[i] \in Range(proc.T.ch[proc.chain.v[i - 1]])
              /\ ~proc.T.sc[proc.chain.v[i]]
        /\ NumMainChilds(proc.T, proc.chain.v[Len(proc.chain.v) - 1]) = 0

C18_Witness ==
    /\ proc.status = "chained"
    /\ ~HasBackEdge(dag)
    /\ proc.chain.ok
    /\ Len(proc.chain.v) = MaxNodes + 1

----------------------------------------------------------------------------
(* The renaming of repeated labels, under SpecGraph.                       *)

\* the labels of the tree T2 are those of T with the j-th occurrence of a
\* label L in pre-order, j >= 2, written L:(j-1)
Renamed(T, T2) ==
    LET order == Preorder(T, 0)
    IN  \A q \in 1..Len(order) :
            T2.val[order[q]] =
                LabelOf(T.val[order[q]],
                        Cardinality({r \in 1..(q - 1) :
                                        T.val[order[r]] = T.val[order[q]]}))

\* C19: the construction rewrites, within each tree, the j-th occurrence
\* (j >= 2, in pre-order) of a label L to L:(j-1) and leaves the first as
\* L; afterwards the labels of a tree are pairwise distinct and each of
\* them is a node of the expanded shared graph.
C19_OccurrencesRenamed ==
    [][(dgraph.status = "new" /\ dgraph'.status # "new") =>
          \A i \in 1..Len(dgraph.dags) :
              /\ Renamed(dgraph.dags[i], dgraph'.dags[i])
              /\ \A x \in DOMAIN dgraph'.dags[i].val,
                    y \in DOMAIN dgraph'.dags[i].val :
                    dgraph'.dags[i].val[x] = dgraph'.dags[i].val[y] => x = y
              /\ \A x \in DOMAIN dgraph'.dags[i].val :
                    dgraph'.dags[i].val[x] \in Range(dgraph'.nodes)]_vars

C19_Witness ==
    /\ Built
    /\ \E i \in 1..Len(dgraph.dags) :
          /\ Size(dgraph.dags[i]) = MaxTreeNodes
          /\ dgraph.dags[i].ch[0] = <<2, 1>>
          /\ SuffixOf(dgraph.dags[i].val[2]) = 1
          /\ SuffixOf(dgraph.dags[i].val[1]) = 2

\* C20: whenever append_traj rejects the drawn index, sample_walk ends the
\* walk and returns good = False, with loop_back = True and with
\* loop_back = False alike.
C20_RejectedIsNotGood ==
    (walk.pc # "none" /\ walk.end = "rejected") =>
        (walk.pc = "done" /\ ~walk.good)

----------------------------------------------------------------------------
(* The claims on the best-first mode of extract_rule, under SpecSearch.    *)

Queued == {e.traj : e \in rule.explore}

\* a trajectory that starts at one of the start indices and ends with the
\* bare token of the same index
ClosedLoop(tr) ==
    /\ Len(tr) >= 2
    /\ TokHead(tr[1]) \in rule.n
    /\ Last(tr) = StrInt(TokHead(tr[1]))

\* the candidates of the last iteration: appended to trajs exactly when
\* verify_walk returned and the walk is back at its start, inserted in the
\* queue exactly when verify_walk returned and it is not
CandidatesSorted ==
    \A c \in rule.cands :
        /\ c.traj \in rule.trajs <=> (c.verify = "returned" /\ c.done)
        /\ c.traj \in Queued <=> (c.verify = "returned" /\ ~c.done)
        /\ c.done <=> (c.ind = TokHead(c.traj[1]) /\ ~c.violation)

\* C21: in the best-first mode every trajectory extract_rule emits starts at
\* one of the start indices, ends with the bare token of that index and was
\* accepted by verify_walk; an accepted successor that is not back at the
\* start is queued and not emitted; a successor rejected by append_traj or by
\* verify_walk is neither emitted nor queued.
C21_EmittedAreVerifiedLoops ==
    /\ [](rule.pc # "none" =>
             /\ rule.pc # "breakpoint"
             /\ \A tr \in rule.trajs : ClosedLoop(tr)
             /\ \A tr \in Queued : ~ClosedLoop(tr)
             /\ CandidatesSorted)
    /\ [][rule.pc = "loop" =>
             rule'.trajs \ rule.trajs
                 \subseteq {c.traj : c \in {c \in rule'.cands :
                                                c.verify = "returned"}}]_vars

\* an iteration that emitted a trajectory longer than the shortest loop and
\* dropped the other candidate as a violation
C21_Witness ==
    /\ rule.pc = "loop"
    /\ \E c \in rule.cands :
          c.verify = "returned" /\ c.done /\ Len(c.traj) > ListLen
    /\ \E c \in rule.cands : c.violation

\* an iteration on a list of starts that queued a candidate and dropped one
\* on which verify_walk raised
C21_WitnessList ==
    /\ rule.pc = "loop"
    /\ Cardinality(rule.n) > 1
    /\ \E c \in rule.cands : c.verify = "returned" /\ ~c.done
    /\ \E c \in rule.cands : c.verify = "raised"

\* C22: a call of extract_rule in the depth-bounded mode (depth >= 1) gets
\* to its loop and explores: it expands the entries below the target depth
\* and emits rules at the target depth.
C22_DepthBoundedExplores ==
    (rule.pc \notin {"none", "enter"} /\ ~rule.best_first)
        => rule.pc \in {"loop", "done"}

----------------------------------------------------------------------------
(* The claims on step and reset, under SpecProc.                           *)

\* C23: a call of DiffusionProcess.step that computes a state whose sum is
\* off 1.0 by more than 0.01, above or below, signals a failure: a call that
\* ends normally leaves a state that sums to 1.0 within the tolerance.
C23_DeviationSignalled ==
    (proc.status = "ok" /\ proc.last = "ok") =>
        100 * Abs(StateSum(proc.state) - Unit) <= Unit

\* every label of tree i of the graph has an index in the shared lookup
AllLabelsKnown(g, i) == Labels(g.dags[i]) \subseteq DOMAIN g.index_lookup

\* process i of h is process i of g one tick later
Advanced(g, h, i) ==
    /\ h.processes[i].t = g.processes[i].t + 1
    /\ h.processes[i] = StepProcess(g.dags[i], DOMAIN g.index_lookup,
                                    g.processes[i])

\* process i of h is process i of g, with its t and its state
Skipped(g, h, i) ==
    /\ h.processes[i].t = g.processes[i].t
    /\ h.processes[i].state = g.processes[i].state

\* C24: a call of DiffusionGraph.step in which no process fails for another
\* reason than a label missing from the shared lookup adds one to the t of
\* the graph; every process of a tree with a missing label has advanced by one
\* tick or is skipped with its t and state unchanged, and every other process
\* has advanced by one tick.
C24_StepSkipsMissingLabels ==
    [][(/\ dgraph.status = "ok"
        /\ dgraph'.op = "step"
        /\ \A i \in 1..Len(dgraph.processes) :
              AllLabelsKnown(dgraph, i) =>
                  StepProcess(dgraph.dags[i], DOMAIN dgraph.index_lookup,
                              dgraph.processes[i]).last = "ok")
        => /\ dgraph'.t = dgraph.t + 1
           /\ \A i \in 1..Len(dgraph.processes) :
                 \/ Advanced(dgraph, dgraph', i)
                 \/ ~AllLabelsKnown(dgraph, i) /\ Skipped(dgraph, dgraph', i)]_vars

\* the same for the calls in which every failing process raises KeyError
C24_KeyErrorIsSkipped ==
    [][(/\ dgraph.status = "ok"
        /\ dgraph'.op = "step"
        /\ \A i \in 1..Len(dgraph.processes) :
              StepProcess(dgraph.dags[i], DOMAIN dgraph.index_lookup,
                          dgraph.processes[i]).last \in {"ok", "KeyError"})
        => /\ dgraph'.t = dgraph.t + 1
           /\ \A i \in 1..Len(dgraph.processes) :
                 \/ Advanced(dgraph, dgraph', i)
                 \/ ~AllLabelsKnown(dgraph, i) /\ Skipped(dgraph, dgraph', i)]_vars

----------------------------------------------------------------------------
(* The claims on the walk orders of a constructed process, under SpecProc. *)

\* the walk dfs_walk built for the process: dfs_order in split mode, the
\* res of compute_dfs otherwise
BuiltWalk == IF proc.split THEN proc.dfs_order ELSE proc.res

RECURSIVE Subtree(_, _)
Subtree(T, x) ==
    {x} \cup UNION {Subtree(T, c) : c \in Range(T.ch[x]) \ {0}}

FirstAt(w, x) == CHOOSE k \in 1..Len(w) : w[k] = x /\ \A j \in 1..(k - 1) : w[j] # x

IsPalindrome(w) == \A k \in 1..Len(w) : w[k] = w[Len(w) + 1 - k]

\* the excursion into the side-chain child c: from the parent just before
\* the first c up to the next time the walk is at the parent
Excursion(T, w, c) ==
    LET k == FirstAt(w, c) - 1
        back == {m \in (k + 1)..Len(w) : w[m] = w[k]}
    IN  IF back = {} THEN <<>>
        ELSE SubSeq(w, k, CHOOSE m \in back : \A j \in back : m <= j)

TreeNeighbours(T, a, b) == b \in Range(T.ch[a]) \/ a \in Range(T.ch[b])

----------------------------------------------------------------------------
(* The claims on the lists append_traj leaves, under SpecTraj.             *)

\* C26: a call of append_traj that rejects its index returns the empty
\* result and leaves the list as it was, a call that accepts leaves the list
\* changed: the list is unchanged exactly when the index was rejected.
C26_UnchangedIffRejected ==
    ret # "none" => ((traj = pre) <=> (ret = "empty"))

\* a rejected index on a list that holds a merged token
C26_Witness ==
    /\ ret = "empty"
    /\ traj = pre
    /\ Len(traj) > 1
    /\ \E k \in 1..Len(traj) : IsSubstr(LB, traj[k])

\* the test `traj == ind_traj` of extract_rule is true of a candidate exactly
\* when get_state went to append_traj and append_traj rejected the index
C26_ViolationIffRejected ==
    rule.pc # "none" =>
        \A c \in rule.cands :
            c.violation <=>
                /\ c.ind # extract(Last(rule.popped))
                /\ c.ind # TokHead(rule.popped[1])
                /\ append_traj(rule.popped, c.ind).ret = "empty"

\* C27: after any sequence of accepted append_traj calls from a one-token
\* list, the decoded index list of the trajectory (the head of every token
\* and the last step of every excursion) holds no index twice.
C27_DecodedHasNoRepeat ==
    \A i \in Indices : CountIdx(i, DecodedIdx(traj)) <= 1

\* a list built by an append after a merge, whose walk came to an index
\* more than once
C27_Witness ==
    /\ ret = "traj"
    /\ Len(traj) > 1
    /\ \E k \in 1..Len(traj) : Len(TokGroups(traj[k])) > 1
    /\ \E i \in Indices : CountIdx(i, hist) > 1

----------------------------------------------------------------------------
(* The claims on the deterministic mode, under SpecProc.                   *)

OneHot(lk, l) == [x \in lk |-> IF x = l THEN Unit ELSE 0]

\* C28: in the deterministic mode, after reset and t steps the state is the
\* one-hot distribution at the label of dfs_order[t mod num_nodes], at t = 0
\* as well, for every seed and direction.
C28_StateFollowsOrder ==
    (proc.status = "ok" /\ ~proc.split) =>
        /\ (proc.t % proc.num_nodes) + 1 <= Len(proc.dfs_order)
        /\ proc.state =
              OneHot(lookup,
                     dag.val[proc.dfs_order[(proc.t % proc.num_nodes) + 1]])

\* the same from the first step on
C28_StateFollowsOrderAfterStep ==
    (proc.status = "ok" /\ ~proc.split /\ proc.t > 0) =>
        /\ (proc.t % proc.num_nodes) + 1 <= Len(proc.dfs_order)
        /\ proc.state =
              OneHot(lookup,
                     dag.val[proc.dfs_order[(proc.t % proc.num_nodes) + 1]])

\* C29: the walk compute_dfs gives for seed 0 is the walk dfs_walk gives
\* without a perm_map, which visits the side-chain children of a node in
\* ascending id order and before its main-chain child, whatever the order
\* the children are stored in.
C29_SeedZeroIsSortedWalk ==
    (proc.status = "ok" /\ ~proc.split /\ proc.dfs_seed = 0) =>
        proc.res = dfs_walk(dag, 0, <<>>, NoPermMap).v

\* the process was built in the deterministic mode up to the call of
\* augment_walk_order, and what the call gave
AugmentCalled == "res" \in DOMAIN proc /\ ~proc.split

AugmentReturned == AugmentCalled /\ proc.status \in {"ok", "AssertionError"}

NewRes == IF proc.status = "ok" THEN proc.dfs_order ELSE proc.new_res

SameMultiset(a, b) ==
    \A x \in Range(a) \cup Range(b) : CountIdx(x, a) = CountIdx(x, b)

\* s read cyclically from its position k (1-based)
Rotation(s, k) == SubSeq(s, k, Len(s)) \o SubSeq(s, 1, k - 1)

\* the nodes of the main chain, without the root that closes the list
NumChain == Len(proc.main_chain) - 1

\* C30: augment_walk_order returns a sequence of the length and with the
\* multiset of nodes of the sequence it is given; in the forward direction
\* it is the rotation of that sequence that starts at the first occurrence
\* of main-chain node number (seed // total) modulo the number of
\* main-chain nodes.
C30_AugmentIsRotation ==
    AugmentCalled =>
        /\ AugmentReturned
        /\ Len(NewRes) = Len(proc.res)
        /\ SameMultiset(NewRes, proc.res)
        /\ proc.dfs_dir =>
              NewRes = Rotation(proc.res,
                  FirstAt(proc.res,
                      proc.main_chain[((proc.seed \div proc.total)
                                          % NumChain) + 1]))

\* the first half for the calls that return
C30_ReturnedIsPermutation ==
    AugmentReturned =>
        /\ Len(NewRes) = Len(proc.res)
        /\ SameMultiset(NewRes, proc.res)

\* for the calls that return, the forward result is the rotation that
\* starts at the position the first loop of augment_walk_order found for
\* entry number (seed // total) modulo the number of positions it found
C30_ForwardIsRotationAtIndex ==
    (AugmentReturned /\ proc.dfs_dir) =>
        LET ind == ChainIndices(proc.res, proc.main_chain, 1, 1, <<>>).v
        IN  NewRes = Rotation(proc.res,
                ind[((proc.seed \div proc.total) % Len(ind)) + 1] + 1)

====
